---- MODULE Spec2Model ----
(***************************************************************************)
(* Username availability service: a Bloom filter (bloom-filter.js) in      *)
(* front of a MongoDB collection with a unique index on `username`, and    *)
(* the two Express handlers GET /username/:name and POST /username         *)
(* (server.js).  Node runs each handler to its next `await` without        *)
(* interruption; the store works on a pending query between the `await`    *)
(* and the continuation.                                                   *)
(***************************************************************************)
EXTENDS Integers, Naturals, Sequences, FiniteSets, TLC

(* ---------------------------------------------------------------------- *)
(* Bounds                                                                  *)
(* ---------------------------------------------------------------------- *)
\* number of HTTP requests the service receives in one run
MaxReq == 2
\* number of filter operations in one run of the filter-only specification
MaxOps == 4
\* number of latency samples in the lists handed to getPercentile
MaxSamples == 4

(* ---------------------------------------------------------------------- *)
(* Strings: a string is a sequence of one-character strings                *)
(* ---------------------------------------------------------------------- *)
UpperChars == <<"A","B","C","D","E","F","G","H","I","J","K","L","M",
                "N","O","P","Q","R","S","T","U","V","W","X","Y","Z">>
LowerChars == <<"a","b","c","d","e","f","g","h","i","j","k","l","m",
                "n","o","p","q","r","s","t","u","v","w","x","y","z">>
DigitChars == {"0","1","2","3","4","5","6","7","8","9"}
WhiteSpace == {" ", "\t", "\n", "\r"}

Range(s) == {s[i] : i \in DOMAIN s}

\* String.prototype.toLowerCase, one character
toLowerChar(c) ==
  IF \E i \in DOMAIN UpperChars : UpperChars[i] = c
  THEN LowerChars[CHOOSE i \in DOMAIN UpperChars : UpperChars[i] = c]
  ELSE c

\* String.prototype.toLowerCase
toLowerCase(s) == [i \in DOMAIN s |-> toLowerChar(s[i])]

\* a slip for trim: trimStart, trailing white space is kept
trimStart(s) ==
  LET keep == {i \in DOMAIN s : s[i] \notin WhiteSpace} IN
  IF keep = {} THEN <<>>
  ELSE SubSeq(s, CHOOSE i \in keep : \A j \in keep : i <= j, Len(s))

\* String.prototype.trim: drops leading and trailing white space
trim(s) ==
  LET keep == {i \in DOMAIN s : s[i] \notin WhiteSpace} IN
  IF keep = {} THEN <<>>
  ELSE LET lo == CHOOSE i \in keep : \A j \in keep : i <= j
           hi == CHOOSE i \in keep : \A j \in keep : j <= i
       IN  SubSeq(s, lo, hi)

\* the format test without its minimum length
isValidUsernameNoMinimum(username) ==
  /\ Len(username) <= 20
  /\ \A i \in DOMAIN username :
        username[i] \in Range(UpperChars) \cup Range(LowerChars)
                        \cup DigitChars \cup {"_"}

\* /^[a-zA-Z0-9_]{3,20}$/.test(username)
isValidUsername(username) ==
  /\ Len(username) >= 3
  /\ Len(username) <= 20
  /\ \A i \in DOMAIN username :
        username[i] \in Range(UpperChars) \cup Range(LowerChars)
                        \cup DigitChars \cup {"_"}

\* the names the model's clients send
BOB == <<"b","o","b">>
KIM == <<"k","i","m">>
EVE == <<"e","v","e">>
\* a name of 21 characters, one more than the format allows
LONG == [i \in 1 .. 21 |-> "a"]
RawNames == { BOB, <<"B","o","b"," ">>, KIM, <<" ","K","I","M">>, EVE,
              <<"n","o">>, <<"e"," ","e">>, LONG }
\* the well-formed keys those names normalize to
Keys == {BOB, KIM, EVE}

(* ---------------------------------------------------------------------- *)
(* BloomFilter (bloom-filter.js)                                           *)
(* ---------------------------------------------------------------------- *)
\* a rate p is the pair <<numerator, denominator>>;
\* Math.log in units of 1/10000, for the arguments the constructor passes
MathLog(x) ==
  CASE x = <<2, 1>> -> 6931
    [] x = <<1, 4>> -> -13863
    [] x = <<1, 2>> -> -6931
    [] x = <<1, 1>> -> 0

\* Math.ceil(a / b) for b > 0 (\div rounds down, also below zero)
CeilDiv(a, b) == (a + b - 1) \div b

\* config.bloomFilterSize and config.bloomFilterFPR of the modelled deployment
bloomFilterSize == 3
bloomFilterFPR == <<1, 4>>

\* a 32-bit unsigned value is the pair <<high 16 bits, low 16 bits>>
Word(hi, lo) == <<hi, lo>>
ZeroSeed == Word(0, 0)

\* parseInt(md5(item + seed.toString()).substring(0, 8), 16):
\* the digests of the model's keys, with seed 0 and with seed hash1
hash(item, seed) ==
  CASE item = BOB /\ seed = ZeroSeed            -> Word(17349, 41987)
    [] item = BOB /\ seed = Word(17349, 41987)  -> Word(381, 47982)
    [] item = KIM /\ seed = ZeroSeed            -> Word(56706, 5855)
    [] item = KIM /\ seed = Word(56706, 5855)   -> Word(50467, 49124)
    [] item = EVE /\ seed = ZeroSeed            -> Word(11201, 12755)
    [] item = EVE /\ seed = Word(11201, 12755)  -> Word(20166, 29163)
    [] item = <<"n","o">> /\ seed = ZeroSeed             -> Word(64452, 60043)
    [] item = <<"n","o">> /\ seed = Word(64452, 60043)   -> Word(46439, 60145)
    [] item = <<"e"," ","e">> /\ seed = ZeroSeed           -> Word(33761, 59465)
    [] item = <<"e"," ","e">> /\ seed = Word(33761, 59465) -> Word(35057, 59145)
    [] item = <<"B","O","B">> /\ seed = ZeroSeed           -> Word(2851, 44306)
    [] item = <<"B","O","B">> /\ seed = Word(2851, 44306)  -> Word(19287, 30293)
    [] item = <<"K","i","m">> /\ seed = ZeroSeed           -> Word(29732, 9254)
    [] item = <<"K","i","m">> /\ seed = Word(29732, 9254)  -> Word(25532, 19749)

\* w % m for a 32-bit w and 0 < m < 2^15
WordMod(w, m) == ((w[1] % m) * (65536 % m) + w[2]) % m

Abs(x) == IF x < 0 THEN -x ELSE x

\* a slip for NewBloomFilter: Math.round in place of Math.ceil
NewBloomFilterRounded(expectedElements, falsePositiveRate) ==
  LET m == ((-(expectedElements * MathLog(falsePositiveRate))) * 20000
            + MathLog(<<2, 1>>) * MathLog(<<2, 1>>))
           \div (2 * MathLog(<<2, 1>>) * MathLog(<<2, 1>>))
  IN  [ expectedElements  |-> expectedElements,
        falsePositiveRate |-> falsePositiveRate,
        bitArraySize      |-> m,
        hashFunctionCount |-> (2 * m * MathLog(<<2, 1>>)
                               + expectedElements * 10000)
                              \div (2 * expectedElements * 10000),
        bitArray          |-> [b \in 0 .. (CeilDiv(m, 8) - 1) |-> 0],
        elementCount      |-> 0 ]

\* new BloomFilter(expectedElements, falsePositiveRate):
\*   m = ceil(-(n * ln p) / (ln 2)^2), k = ceil((m / n) * ln 2)
NewBloomFilter(expectedElements, falsePositiveRate) ==
  LET m == CeilDiv((-(expectedElements * MathLog(falsePositiveRate))) * 10000,
                   MathLog(<<2, 1>>) * MathLog(<<2, 1>>))
  IN  [ expectedElements  |-> expectedElements,
        falsePositiveRate |-> falsePositiveRate,
        bitArraySize      |-> m,
        hashFunctionCount |-> CeilDiv(m * MathLog(<<2, 1>>),
                                      expectedElements * 10000),
        bitArray          |-> [b \in 0 .. (CeilDiv(m, 8) - 1) |-> 0],
        elementCount      |-> 0 ]

\* a slip for getHashValues: the sum is not reduced modulo bitArraySize
getHashValuesUnreduced(f, item) ==
  LET hash1 == hash(item, ZeroSeed)
      hash2 == hash(item, hash1)
  IN  [j \in 1 .. f.hashFunctionCount |->
         Abs(WordMod(hash1, f.bitArraySize)
             + (j - 1) * WordMod(hash2, f.bitArraySize))]

\* getHashValues(item): double hashing, (hash1 + i * hash2) % bitArraySize
getHashValues(f, item) ==
  LET hash1 == hash(item, ZeroSeed)
      hash2 == hash(item, hash1)
  IN  [j \in 1 .. f.hashFunctionCount |->
         Abs((WordMod(hash1, f.bitArraySize)
              + (j - 1) * WordMod(hash2, f.bitArraySize)) % f.bitArraySize)]

Pow2(e) == IF e = 0 THEN 1 ELSE IF e = 1 THEN 2 ELSE IF e = 2 THEN 4
           ELSE IF e = 3 THEN 8 ELSE IF e = 4 THEN 16 ELSE IF e = 5 THEN 32
           ELSE IF e = 6 THEN 64 ELSE 128

\* (byte & (1 << bitIndex)) !== 0
TestBit(byte, bitIndex) == (byte \div Pow2(bitIndex)) % 2 = 1

\* a slip for OrBit: `=` in place of `|=`, the byte's other bits are lost
AssignBit(byte, bitIndex) == Pow2(bitIndex)

\* a slip for OrBit: `^=` in place of `|=`
XorBit(byte, bitIndex) ==
  IF TestBit(byte, bitIndex) THEN byte - Pow2(bitIndex)
  ELSE (byte + Pow2(bitIndex)) % 256

\* byte |= (1 << bitIndex), stored in a Uint8Array cell
OrBit(byte, bitIndex) ==
  IF TestBit(byte, bitIndex) THEN byte ELSE (byte + Pow2(bitIndex)) % 256

\* the loop of add: for (const hash of hashes) bitArray[hash / 8] |= 1 << hash % 8
RECURSIVE SetBits(_, _)
SetBits(bitArray, hashes) ==
  IF hashes = <<>> THEN bitArray
  ELSE LET h == Head(hashes)
           byteIndex == h \div 8
           bitIndex == h % 8
       IN  SetBits([bitArray EXCEPT ![byteIndex] = OrBit(@, bitIndex)],
                   Tail(hashes))

\* a slip for add: the counter moves only when a bit was set
addCountingNew(f, item) ==
  LET bits == SetBits(f.bitArray, getHashValues(f, toLowerCase(item))) IN
  [f EXCEPT !.bitArray = bits,
            !.elementCount = IF bits = f.bitArray THEN @ ELSE @ + 1]

\* a slip for add: the item is hashed as given, without toLowerCase
addCaseSensitive(f, item) ==
  [f EXCEPT !.bitArray = SetBits(@, getHashValues(f, item)),
            !.elementCount = @ + 1]

\* add(item)
add(f, item) ==
  [f EXCEPT !.bitArray = SetBits(@, getHashValues(f, toLowerCase(item))),
            !.elementCount = @ + 1]

\* mightContain(item)
mightContain(f, item) ==
  LET hashes == getHashValues(f, toLowerCase(item)) IN
  \A j \in DOMAIN hashes :
     TestBit(f.bitArray[hashes[j] \div 8], hashes[j] % 8)

\* a slip for addBatch: usernames the filter already reports are skipped
RECURSIVE addBatchSkippingKnown(_, _)
addBatchSkippingKnown(f, usernames) ==
  IF usernames = <<>> THEN f
  ELSE addBatchSkippingKnown(IF mightContain(f, Head(usernames)) THEN f
                             ELSE add(f, Head(usernames)),
                             Tail(usernames))

\* addBatch(usernames)
RECURSIVE addBatch(_, _)
addBatch(f, usernames) ==
  IF usernames = <<>> THEN f
  ELSE addBatch(add(f, Head(usernames)), Tail(usernames))

\* Math.exp(-(num / den)) in millionths, for whole quotients
MathExpNeg(num, den) ==
  LET table == <<1000000, 367879, 135335, 49787, 18316, 6738, 2479, 912,
                 335, 123, 45, 17, 6, 2>>
      c == num \div den
  IN  IF c + 1 \in DOMAIN table THEN table[c + 1] ELSE 0

\* x * y for x, y in millionths, rounded to millionths
MulMicro(x, y) ==
  (((x \div 1000) * y) + (((x % 1000) * y) \div 1000) + 500) \div 1000

\* Math.pow(x, k) for x in millionths
RECURSIVE PowMicro(_, _)
PowMicro(x, k) == IF k = 0 THEN 1000000 ELSE MulMicro(PowMicro(x, k - 1), x)

\* (a / b).toFixed(d) in units of 10^-d, scale = 10^d
ToFixed(a, b, scale) == (2 * a * scale + b) \div (2 * b)

\* getStats()
getStats(f) ==
  [ elementCount                |-> f.elementCount,
    expectedElements            |-> f.expectedElements,
    fillRatio                   |-> ToFixed(f.elementCount, f.expectedElements, 10000),
    configuredFalsePositiveRate |-> f.falsePositiveRate,
    estimatedFalsePositiveRate  |->
        PowMicro(1000000 - MathExpNeg(f.hashFunctionCount * f.elementCount,
                                      f.expectedElements),
                 f.hashFunctionCount),
    bitArraySize                |-> f.bitArraySize,
    hashFunctionCount           |-> f.hashFunctionCount,
    memoryUsageKB               |-> ToFixed(CeilDiv(f.bitArraySize, 8), 1024, 100) ]

\* serialize()
serialize(f) ==
  [ bitArray          |-> [i \in 1 .. (CeilDiv(f.bitArraySize, 8)) |-> f.bitArray[i - 1]],
    elementCount      |-> f.elementCount,
    bitArraySize      |-> f.bitArraySize,
    hashFunctionCount |-> f.hashFunctionCount,
    expectedElements  |-> f.expectedElements,
    falsePositiveRate |-> f.falsePositiveRate ]

\* a slip for deserialize: the saved fields are not restored
deserializeFresh(data) ==
  NewBloomFilter(data.expectedElements, data.falsePositiveRate)

\* BloomFilter.deserialize(data): a new filter, then bitArray (as a
\* Uint8Array, indexed from 0), elementCount, bitArraySize and
\* hashFunctionCount are overwritten from data
deserialize(data) ==
  LET filter == NewBloomFilter(data.expectedElements, data.falsePositiveRate)
  IN  [filter EXCEPT
         !.bitArray = [b \in 0 .. (Len(data.bitArray) - 1) |->
                         data.bitArray[b + 1] % 256],
         !.elementCount = data.elementCount,
         !.bitArraySize = data.bitArraySize,
         !.hashFunctionCount = data.hashFunctionCount]

(* ---------------------------------------------------------------------- *)
(* State                                                                   *)
(* ---------------------------------------------------------------------- *)
VARIABLES
  bloomFilter,          \* the process-wide BloomFilter instance
  usernamesCollection,  \* the documents of db.collection('usernames'), in insertion order
  metrics,              \* bloomFilterHits, databaseQueries, totalRequests, responseTimes
  req,                  \* the HTTP requests: handler position, locals and response
  now,                  \* Date.now()
  added,                \* filter-only runs: the items on which add has completed
  ret,                  \* filter-only and cache-only runs: what the last call returned
  ops,                  \* filter-only and cache-only runs: number of calls made
  client,               \* RedisCache.client: "null", "open" or "closed"
  connected,            \* RedisCache.connected
  redis,                \* the Redis server's entries under keyPrefix: key -> value
  phase,                \* "warmup" while initializeBloomFilter runs, then "listening"
  cursor,               \* warm-up: number of documents the cursor has delivered
  batch,                \* warm-up: usernames collected for the next addBatch
  count,                \* warm-up: usernames counted
  warmError             \* warm-up: whether the cursor failed

cacheVars == <<client, connected, redis>>
warmVars == <<phase, cursor, batch, count, warmError>>

vars == <<bloomFilter, usernamesCollection, metrics, req, now, added, ret, ops,
          cacheVars, warmVars>>

Reqs == 1 .. MaxReq

\* findOne's "no document"
Null == <<>>

\* the keys of the documents of a collection
KeysOf(coll) == {coll[i].username : i \in DOMAIN coll}

\* a slip for findOne: the query filter is dropped, any document matches
findOneAny(coll, username) == IF coll = <<>> THEN Null ELSE <<coll[1]>>

\* usernamesCollection.findOne({ username })
findOne(coll, username) ==
  LET hits == {i \in DOMAIN coll : coll[i].username = username} IN
  IF hits = {} THEN Null
  ELSE <<coll[CHOOSE i \in hits : \A j \in hits : i <= j]>>

\* a slip for DuplicateKey: the collection has no unique index
NoUniqueIndex(coll, doc) == FALSE

\* createIndex({ username: 1 }, { unique: true }): a second document with the
\* key is rejected
DuplicateKey(coll, doc) == \E i \in DOMAIN coll : coll[i].username = doc.username

\* usernamesCollection.insertOne(doc), when the index accepts it
insertOne(coll, doc) == Append(coll, doc)

\* initializeBloomFilter(): every stored username is added, batch by batch
initializeBloomFilter(f, coll) ==
  addBatch(f, [i \in DOMAIN coll |-> coll[i].username])

\* the collections the service may find at start-up
InitialCollections ==
  { <<>>, << [username |-> BOB, createdAt |-> 0] >> }

\* a slip for ShortCircuits: force_db is ignored
ShortCircuitsIgnoringForce(force_db, f, username) == ~mightContain(f, username)

\* a slip for ShortCircuits: the filter's answer is read the wrong way round
ShortCircuitsOnMaybe(force_db, f, username) ==
  ~force_db /\ mightContain(f, username)

\* GET handler: !forceDb && !bloomFilter.mightContain(username)
ShortCircuits(force_db, f, username) == ~force_db /\ ~mightContain(f, username)

\* a slip for Available: the negation is dropped
AvailableIfFound(existingUser) == existingUser # Null

\* GET handler: const available = !existingUser
Available(existingUser) == ~(existingUser # Null)

\* GET handler: source: forceDb ? 'forced_database' : 'database'
StoreSource(forceDb) == IF forceDb THEN "forced_database" ELSE "database"

\* a slip for FilterAfterInsert: the filter is not updated on registration
FilterNotUpdated(f, username) == f

\* POST handler: bloomFilter.add(normalizedUsername) after the insert
FilterAfterInsert(f, username) == add(f, username)

\* a slip for FilterBeforeInsert: the key is added before the insert resolves
FilterAddedEarly(f, username) == add(f, username)

\* POST handler: between findOne and the resolved insertOne the filter is
\* left alone
FilterBeforeInsert(f, username) == f

\* a slip for CheckCatch: the store error is swallowed, the name reported free
CheckCatchSwallows(message) ==
  [status |-> 200, available |-> TRUE, source |-> "database"]

\* GET handler: catch (error) { res.status(500).json(...) }
CheckCatch(message) ==
  [status |-> 500, error |-> "Internal server error", message |-> message]

\* POST handler: the outer catch (err) { res.status(500).json(...) }
RegisterCatch(message) ==
  [status |-> 500, error |-> "Internal server error", message |-> message]

\* a request before it arrives.  maybe, atStart, seen, storeCalls and endT
\* only record what happened: the filter's answer and the keys in the store
\* when the handler started, the keys in the store when findOne was
\* answered, the store calls the handler issued, and the time of the response.
NoReq ==
  [ kind |-> "none", pc |-> "idle", name |-> <<>>, username |-> <<>>,
    forceDb |-> FALSE, startTime |-> 0, existingUser |-> Null,
    doc |-> Null, threw |-> "none", res |-> [status |-> 0],
    maybe |-> FALSE, atStart |-> {}, seen |-> {}, storeCalls |-> 0,
    endT |-> 0 ]

\* no entry in Redis
NoEntries == [k \in {} |-> "nil"]

\* new RedisCache(): no client, not connected; server.js never creates one
CacheUnused ==
  /\ client = "null"
  /\ connected = FALSE
  /\ redis = NoEntries

\* `const batchSize = 1000`, scaled down
batchSize == 2

\* initializeBloomFilter() has run through the whole collection: batch is
\* left holding the usernames of the last, partial batch
WarmedUp ==
  /\ phase = "listening"
  /\ cursor = Len(usernamesCollection)
  /\ batch = [i \in 1 .. (Len(usernamesCollection) % batchSize) |->
               usernamesCollection[Len(usernamesCollection)
                                   - (Len(usernamesCollection) % batchSize)
                                   + i].username]
  /\ count = Len(usernamesCollection)
  /\ warmError = FALSE

\* initializeServices() has completed: the index exists, the filter has been
\* constructed and loaded from the collection without a store error
Init ==
  /\ usernamesCollection \in InitialCollections
  /\ bloomFilter = initializeBloomFilter(
                     NewBloomFilter(bloomFilterSize, bloomFilterFPR),
                     usernamesCollection)
  /\ metrics = [bloomFilterHits |-> 0, databaseQueries |-> 0,
                totalRequests |-> 0, responseTimes |-> <<>>]
  /\ req = [r \in Reqs |-> NoReq]
  /\ now = 0
  /\ added = {}
  /\ ret = "none"
  /\ ops = 0
  /\ CacheUnused
  /\ WarmedUp

\* requests arrive in slot order
NextSlot(r) ==
  /\ req[r].pc = "idle"
  /\ \A q \in Reqs : q < r => req[q].pc # "idle"

Respond(r, rec, response) ==
  [req EXCEPT ![r] = [rec EXCEPT !.pc = "done", !.res = response, !.endT = now]]

(* ---------------------------------------------------------------------- *)
(* GET /username/:name                                                     *)
(* ---------------------------------------------------------------------- *)
\* the handler up to its first await (or its synchronous response)
CheckStart(r, name, force_db) ==
  /\ NextSlot(r)
  /\ LET username == trim(toLowerCase(name))
         rec == [NoReq EXCEPT !.kind = "check", !.name = name,
                              !.username = username, !.forceDb = force_db,
                              !.startTime = now,
                              !.atStart = KeysOf(usernamesCollection),
                              !.maybe = isValidUsername(username)
                                        /\ mightContain(bloomFilter, username)]
     IN  IF ~isValidUsername(username)
         THEN /\ req' = Respond(r, rec,
                          [status |-> 400, error |-> "Invalid username format",
                           username |-> username])
              /\ UNCHANGED metrics
         ELSE IF ShortCircuits(force_db, bloomFilter, username)
         THEN /\ metrics' = [metrics EXCEPT
                               !.totalRequests = @ + 1,
                               !.bloomFilterHits = @ + 1,
                               !.responseTimes = Append(@, now - rec.startTime)]
              /\ req' = Respond(r, rec,
                          [status |-> 200, username |-> username,
                           available |-> TRUE, source |-> "bloom_filter",
                           response_time_ms |-> now - rec.startTime])
         ELSE /\ metrics' = [metrics EXCEPT !.totalRequests = @ + 1,
                                            !.databaseQueries = @ + 1]
              /\ req' = [req EXCEPT ![r] =
                           [rec EXCEPT !.pc = "findOne", !.storeCalls = 1]]
  /\ now' = now + 1
  /\ UNCHANGED <<bloomFilter, usernamesCollection, added, ret, ops,
               cacheVars, warmVars>>

\* a slip for CheckResume: the catch block records a latency sample too
CheckResumeSamplingFailures(r) ==
  /\ req[r].kind = "check"
  /\ req[r].pc = "findOneReturned"
  /\ metrics' = [metrics EXCEPT
                   !.responseTimes = Append(@, now - req[r].startTime)]
  /\ req' = Respond(r, req[r],
               IF req[r].threw # "none" THEN CheckCatch(req[r].threw)
               ELSE [status |-> 200, username |-> req[r].username,
                     available |-> Available(req[r].existingUser),
                     source |-> StoreSource(req[r].forceDb),
                     response_time_ms |-> now - req[r].startTime])
  /\ now' = now + 1
  /\ UNCHANGED <<bloomFilter, usernamesCollection, added, ret, ops,
               cacheVars, warmVars>>

\* a slip for CheckResume: a key the store knows is added to the filter
CheckResumeRepairingFilter(r) ==
  /\ req[r].kind = "check"
  /\ req[r].pc = "findOneReturned"
  /\ IF req[r].threw # "none"
     THEN /\ req' = Respond(r, req[r], CheckCatch(req[r].threw))
          /\ UNCHANGED <<metrics, bloomFilter>>
     ELSE /\ metrics' = [metrics EXCEPT
                           !.responseTimes = Append(@, now - req[r].startTime)]
          /\ bloomFilter' = IF req[r].existingUser # Null
                            THEN add(bloomFilter, req[r].username)
                            ELSE bloomFilter
          /\ req' = Respond(r, req[r],
                      [status |-> 200, username |-> req[r].username,
                       available |-> Available(req[r].existingUser),
                       source |-> StoreSource(req[r].forceDb),
                       response_time_ms |-> now - req[r].startTime])
  /\ now' = now + 1
  /\ UNCHANGED <<usernamesCollection, added, ret, ops, cacheVars, warmVars>>

\* the continuation after `await usernamesCollection.findOne({ username })`
CheckResume(r) ==
  /\ req[r].kind = "check"
  /\ req[r].pc = "findOneReturned"
  /\ IF req[r].threw # "none"
     THEN /\ req' = Respond(r, req[r], CheckCatch(req[r].threw))
          /\ UNCHANGED metrics
     ELSE LET available == Available(req[r].existingUser)
              responseTime == now - req[r].startTime
          IN  /\ metrics' = [metrics EXCEPT
                               !.responseTimes = Append(@, responseTime)]
              /\ req' = Respond(r, req[r],
                          [status |-> 200, username |-> req[r].username,
                           available |-> available,
                           source |-> StoreSource(req[r].forceDb),
                           response_time_ms |-> responseTime])
  /\ now' = now + 1
  /\ UNCHANGED <<bloomFilter, usernamesCollection, added, ret, ops,
               cacheVars, warmVars>>

(* ---------------------------------------------------------------------- *)
(* The store serving a pending query                                       *)
(* ---------------------------------------------------------------------- *)
\* findOne is answered from the collection as it is now, or fails
StoreFindOne(r, fails) ==
  /\ req[r].pc = "findOne"
  /\ req' = [req EXCEPT ![r] =
               IF fails
               THEN [@ EXCEPT !.pc = "findOneReturned", !.threw = "MongoNetworkError"]
               ELSE [@ EXCEPT !.pc = "findOneReturned",
                              !.existingUser = findOne(usernamesCollection, req[r].username),
                              !.seen = KeysOf(usernamesCollection)]]
  /\ now' = now + 1
  /\ UNCHANGED <<bloomFilter, usernamesCollection, metrics, added, ret, ops,
               cacheVars, warmVars>>

\* insertOne is applied atomically under the unique index, or fails
StoreInsertOne(r, fails) ==
  /\ req[r].pc = "insertOne"
  /\ LET doc == req[r].doc[1] IN
     IF fails
     THEN /\ req' = [req EXCEPT ![r] =
                       [@ EXCEPT !.pc = "insertOneReturned",
                                 !.threw = "MongoNetworkError"]]
          /\ UNCHANGED usernamesCollection
     ELSE IF DuplicateKey(usernamesCollection, doc)
     THEN /\ req' = [req EXCEPT ![r] =
                       [@ EXCEPT !.pc = "insertOneReturned",
                                 !.threw = "E11000 duplicate key error"]]
          /\ UNCHANGED usernamesCollection
     ELSE /\ usernamesCollection' = insertOne(usernamesCollection, doc)
          /\ req' = [req EXCEPT ![r] = [@ EXCEPT !.pc = "insertOneReturned"]]
  /\ now' = now + 1
  /\ UNCHANGED <<bloomFilter, metrics, added, ret, ops,
               cacheVars, warmVars>>

(* ---------------------------------------------------------------------- *)
(* POST /username                                                          *)
(* ---------------------------------------------------------------------- *)
\* the handler up to `await usernamesCollection.findOne(...)`;
\* name = <<>> is a body without a (non-empty) username
RegisterStart(r, name) ==
  /\ NextSlot(r)
  /\ LET normalizedUsername == trim(toLowerCase(name))
         rec == [NoReq EXCEPT !.kind = "register", !.name = name,
                              !.username = normalizedUsername,
                              !.startTime = now,
                              !.atStart = KeysOf(usernamesCollection),
                              !.maybe = isValidUsername(normalizedUsername)
                                        /\ mightContain(bloomFilter,
                                                        normalizedUsername)]
     IN  IF name = <<>>
         THEN req' = Respond(r, rec,
                       [status |-> 400, error |-> "Username is required"])
         ELSE IF ~isValidUsername(normalizedUsername)
         THEN req' = Respond(r, rec,
                       [status |-> 400, error |-> "Invalid username format"])
         ELSE req' = [req EXCEPT ![r] =
                        [rec EXCEPT !.pc = "findOne", !.storeCalls = 1]]
  /\ now' = now + 1
  /\ UNCHANGED <<bloomFilter, usernamesCollection, metrics, added, ret, ops,
               cacheVars, warmVars>>

\* the continuation after findOne, up to `await usernamesCollection.insertOne(...)`
RegisterAfterFind(r) ==
  /\ req[r].kind = "register"
  /\ req[r].pc = "findOneReturned"
  /\ IF req[r].threw # "none"
     THEN /\ req' = Respond(r, req[r], RegisterCatch(req[r].threw))
          /\ UNCHANGED bloomFilter
     ELSE IF req[r].existingUser # Null
     THEN /\ req' = Respond(r, req[r],
                      [status |-> 409, error |-> "Username already taken",
                       username |-> req[r].username])
          /\ UNCHANGED bloomFilter
     ELSE /\ req' = [req EXCEPT ![r] =
                       [@ EXCEPT !.pc = "insertOne",
                                 !.doc = << [username  |-> req[r].username,
                                             createdAt |-> now] >>,
                                 !.storeCalls = @ + 1]]
          /\ bloomFilter' = FilterBeforeInsert(bloomFilter, req[r].username)
  /\ now' = now + 1
  /\ UNCHANGED <<usernamesCollection, metrics, added, ret, ops,
               cacheVars, warmVars>>

\* the continuation after insertOne: bloomFilter.add, then the 201 response
RegisterAfterInsert(r) ==
  /\ req[r].kind = "register"
  /\ req[r].pc = "insertOneReturned"
  /\ IF req[r].threw # "none"
     THEN /\ req' = Respond(r, req[r], RegisterCatch(req[r].threw))
          /\ UNCHANGED bloomFilter
     ELSE /\ bloomFilter' = FilterAfterInsert(bloomFilter, req[r].username)
          /\ req' = Respond(r, req[r],
                      [status |-> 201,
                       message |-> "Username registered successfully",
                       username |-> req[r].username])
  /\ now' = now + 1
  /\ UNCHANGED <<usernamesCollection, metrics, added, ret, ops,
               cacheVars, warmVars>>

Next ==
  \/ \E r \in Reqs, name \in RawNames, force_db \in BOOLEAN :
        CheckStart(r, name, force_db)
  \/ \E r \in Reqs : CheckResume(r)
  \/ \E r \in Reqs, fails \in BOOLEAN : StoreFindOne(r, fails)
  \/ \E r \in Reqs, fails \in BOOLEAN : StoreInsertOne(r, fails)
  \/ \E r \in Reqs, name \in RawNames \cup {<<>>} : RegisterStart(r, name)
  \/ \E r \in Reqs : RegisterAfterFind(r)
  \/ \E r \in Reqs : RegisterAfterInsert(r)

Spec == Init /\ [][Next]_vars

(* ---------------------------------------------------------------------- *)
(* The filter on its own: any caller, any order of calls                   *)
(* ---------------------------------------------------------------------- *)
\* the items handed to the filter: keys in several spellings
FilterItems == { BOB, <<"B","O","B">>, KIM, <<"K","i","m">>, EVE }

\* the batches handed to addBatch: the empty one, with and without duplicates
FilterBatches ==
  {<<>>} \cup {<<x>> : x \in FilterItems}
         \cup {<<x, y>> : x \in {BOB, EVE}, y \in FilterItems}

FilterInit ==
  /\ bloomFilter = NewBloomFilter(bloomFilterSize, bloomFilterFPR)
  /\ usernamesCollection = <<>>
  /\ metrics = [bloomFilterHits |-> 0, databaseQueries |-> 0,
                totalRequests |-> 0, responseTimes |-> <<>>]
  /\ req = [r \in Reqs |-> NoReq]
  /\ now = 0
  /\ added = {}
  /\ ret = [op |-> "new"]
  /\ ops = 0
  /\ CacheUnused
  /\ WarmedUp

FilterFrame ==
  UNCHANGED <<usernamesCollection, metrics, req, now, cacheVars, warmVars>>

CallAdd(item) ==
  /\ ops < MaxOps
  /\ bloomFilter' = add(bloomFilter, item)
  /\ added' = added \cup {item}
  /\ ret' = [op |-> "add", item |-> item]
  /\ ops' = ops + 1
  /\ FilterFrame

CallAddBatch(usernames) ==
  /\ ops < MaxOps
  /\ bloomFilter' = addBatch(bloomFilter, usernames)
  /\ added' = added \cup Range(usernames)
  /\ ret' = [op |-> "addBatch", usernames |-> usernames]
  /\ ops' = ops + 1
  /\ FilterFrame

CallMightContain(item) ==
  /\ ops < MaxOps
  /\ ret' = [op |-> "mightContain", item |-> item,
             value |-> mightContain(bloomFilter, item)]
  /\ ops' = ops + 1
  /\ UNCHANGED <<bloomFilter, added>>
  /\ FilterFrame

CallGetStats ==
  /\ ops < MaxOps
  /\ ret' = [op |-> "getStats", value |-> getStats(bloomFilter)]
  /\ ops' = ops + 1
  /\ UNCHANGED <<bloomFilter, added>>
  /\ FilterFrame

CallSerialize ==
  /\ ops < MaxOps
  /\ ret' = [op |-> "serialize", value |-> serialize(bloomFilter)]
  /\ ops' = ops + 1
  /\ UNCHANGED <<bloomFilter, added>>
  /\ FilterFrame

FilterNext ==
  \/ \E item \in FilterItems : CallAdd(item)
  \/ \E usernames \in FilterBatches : CallAddBatch(usernames)
  \/ \E item \in FilterItems : CallMightContain(item)
  \/ CallGetStats
  \/ CallSerialize

FilterSpec == FilterInit /\ [][FilterNext]_vars

(* ---------------------------------------------------------------------- *)
(* RedisCache (redis-config.js)                                            *)
(* ---------------------------------------------------------------------- *)
\* config.keyPrefix
keyPrefix == <<"u","s","e","r","n","a","m","e",":">>

\* this.config.keyPrefix + username.toLowerCase()
CacheKey(username) == keyPrefix \o toLowerCase(username)

\* available ? 'available' : 'taken'
CacheValue(available) == IF available THEN "available" ELSE "taken"

\* client.setEx(key, expiry, value) on the entries of the Redis server
setEx(entries, key, value) ==
  [k \in DOMAIN entries \cup {key} |-> IF k = key THEN value ELSE entries[k]]

\* client.del(keys)
del(entries, keys) == [k \in DOMAIN entries \ keys |-> entries[k]]

\* the pipeline of setMultipleUsernames: one setEx per entry of the status
\* map, in order; the map is the sequence of its <<username, available>> pairs
RECURSIVE setMultipleUsernames(_, _)
setMultipleUsernames(entries, usernameStatusMap) ==
  IF usernameStatusMap = <<>> THEN entries
  ELSE setMultipleUsernames(
         setEx(entries, CacheKey(Head(usernameStatusMap)[1]),
               CacheValue(Head(usernameStatusMap)[2])),
         Tail(usernameStatusMap))

\* warmupCache(popularUsernames) on a connected cache: every name is written
\* as taken (the lists here are shorter than one batch of 100)
warmupCache(entries, popularUsernames) ==
  setMultipleUsernames(entries,
     [i \in DOMAIN popularUsernames |-> <<popularUsernames[i], FALSE>>])

\* `if (!this.connected) throw new Error('Redis not connected')`
NotConnected == [threw |-> "Redis not connected", value |-> "none"]

\* getUsernameAvailability(username); fails: client.get rejects.
\* value is "null" (miss), "true" or "false"
getUsernameAvailability(username, fails) ==
  IF ~connected THEN NotConnected
  ELSE IF fails THEN [threw |-> "none", value |-> "null"]
  ELSE LET key == CacheKey(username) IN
       IF key \notin DOMAIN redis
       THEN [threw |-> "none", value |-> "null"]
       ELSE [threw |-> "none",
             value |-> IF redis[key] = "available" THEN "true" ELSE "false"]

\* the names handed to the cache
CacheNames == { BOB, <<"B","O","B">>, EVE }

\* the lists handed to warmupCache
PopularLists == { <<>>, <<BOB>>, <<BOB, EVE>> }

CacheInit ==
  /\ bloomFilter = NewBloomFilter(bloomFilterSize, bloomFilterFPR)
  /\ usernamesCollection = <<>>
  /\ metrics = [bloomFilterHits |-> 0, databaseQueries |-> 0,
                totalRequests |-> 0, responseTimes |-> <<>>]
  /\ req = [r \in Reqs |-> NoReq]
  /\ now = 0
  /\ added = {}
  /\ ret = [op |-> "new"]
  /\ ops = 0
  /\ CacheUnused
  /\ WarmedUp

CacheFrame ==
  UNCHANGED <<bloomFilter, usernamesCollection, metrics, req, now, added,
              warmVars>>

\* connect(): creates the client; when client.connect() succeeds the 'ready'
\* handler has run, otherwise the error is rethrown
CallConnect(fails) ==
  /\ ops < MaxOps
  /\ client = "null"
  /\ client' = "client"
  /\ connected' = ~fails
  /\ ret' = [op |-> "connect",
             threw |-> IF fails THEN "ECONNREFUSED" ELSE "none"]
  /\ ops' = ops + 1
  /\ UNCHANGED redis
  /\ CacheFrame

\* client.on('error', ...)
OnError ==
  /\ client # "null"
  /\ connected' = FALSE
  /\ UNCHANGED <<client, redis, ret, ops>>
  /\ CacheFrame

\* client.on('ready', ...)
OnReady ==
  /\ client # "null"
  /\ connected' = TRUE
  /\ UNCHANGED <<client, redis, ret, ops>>
  /\ CacheFrame

\* client.on('end', ...)
OnEnd ==
  /\ client # "null"
  /\ connected' = FALSE
  /\ UNCHANGED <<client, redis, ret, ops>>
  /\ CacheFrame

CallGetUsernameAvailability(username, fails) ==
  /\ ops < MaxOps
  /\ ret' = [op |-> "getUsernameAvailability", username |-> username,
             result |-> getUsernameAvailability(username, fails)]
  /\ ops' = ops + 1
  /\ UNCHANGED <<client, connected, redis>>
  /\ CacheFrame

\* setUsernameAvailability(username, available); fails: client.setEx rejects
CallSetUsernameAvailability(username, available, fails) ==
  /\ ops < MaxOps
  /\ IF connected /\ ~fails
     THEN /\ redis' = setEx(redis, CacheKey(username), CacheValue(available))
          /\ ret' = [op |-> "setUsernameAvailability", value |-> TRUE]
     ELSE /\ redis' = redis
          /\ ret' = [op |-> "setUsernameAvailability", value |-> FALSE]
  /\ ops' = ops + 1
  /\ UNCHANGED <<client, connected>>
  /\ CacheFrame

\* invalidateUsername(username); fails: client.del rejects
CallInvalidateUsername(username, fails) ==
  /\ ops < MaxOps
  /\ IF connected /\ ~fails
     THEN /\ redis' = del(redis, {CacheKey(username)})
          /\ ret' = [op |-> "invalidateUsername", value |-> TRUE]
     ELSE /\ redis' = redis
          /\ ret' = [op |-> "invalidateUsername", value |-> FALSE]
  /\ ops' = ops + 1
  /\ UNCHANGED <<client, connected>>
  /\ CacheFrame

\* warmupCache(popularUsernames): setMultipleUsernames skips the write when
\* the cache is not connected
CallWarmupCache(popularUsernames) ==
  /\ ops < MaxOps
  /\ redis' = IF connected /\ popularUsernames # <<>>
              THEN warmupCache(redis, popularUsernames)
              ELSE redis
  /\ ret' = [op |-> "warmupCache"]
  /\ ops' = ops + 1
  /\ UNCHANGED <<client, connected>>
  /\ CacheFrame

\* flushUsernameCache(): deletes every key with the prefix
CallFlushUsernameCache ==
  /\ ops < MaxOps
  /\ IF connected
     THEN /\ redis' = del(redis, DOMAIN redis)
          /\ ret' = [op |-> "flushUsernameCache", value |-> TRUE]
     ELSE /\ redis' = redis
          /\ ret' = [op |-> "flushUsernameCache", value |-> FALSE]
  /\ ops' = ops + 1
  /\ UNCHANGED <<client, connected>>
  /\ CacheFrame

\* disconnect()
CallDisconnect ==
  /\ ops < MaxOps
  /\ client # "null"
  /\ connected' = FALSE
  /\ ret' = [op |-> "disconnect"]
  /\ ops' = ops + 1
  /\ UNCHANGED <<client, redis>>
  /\ CacheFrame

\* the Redis server drops an entry whose expiry has passed
Expire(key) ==
  /\ key \in DOMAIN redis
  /\ redis' = del(redis, {key})
  /\ UNCHANGED <<client, connected, ret, ops>>
  /\ CacheFrame

CacheNext ==
  \/ \E fails \in BOOLEAN : CallConnect(fails)
  \/ OnError
  \/ OnReady
  \/ OnEnd
  \/ \E username \in CacheNames, fails \in BOOLEAN :
        CallGetUsernameAvailability(username, fails)
  \/ \E username \in CacheNames, available \in BOOLEAN, fails \in BOOLEAN :
        CallSetUsernameAvailability(username, available, fails)
  \/ \E username \in CacheNames, fails \in BOOLEAN :
        CallInvalidateUsername(username, fails)
  \/ \E popularUsernames \in PopularLists : CallWarmupCache(popularUsernames)
  \/ CallFlushUsernameCache
  \/ CallDisconnect
  \/ \E key \in DOMAIN redis : Expire(key)

CacheSpec == CacheInit /\ [][CacheNext]_vars

(* ---------------------------------------------------------------------- *)
(* The service beside a Redis server that other processes have written     *)
(* ---------------------------------------------------------------------- *)
\* what a Redis server shared with the service may hold when the service
\* starts: nothing, the entries of warmupCache(['bob']), or the entry of
\* setUsernameAvailability('eve', true)
CacheContents ==
  { NoEntries,
    warmupCache(NoEntries, <<BOB>>),
    setEx(NoEntries, CacheKey(EVE), CacheValue(TRUE)) }

\* Init, with the Redis server holding any of those contents; the service
\* itself has no RedisCache object
TierInit ==
  /\ usernamesCollection \in InitialCollections
  /\ bloomFilter = initializeBloomFilter(
                     NewBloomFilter(bloomFilterSize, bloomFilterFPR),
                     usernamesCollection)
  /\ metrics = [bloomFilterHits |-> 0, databaseQueries |-> 0,
                totalRequests |-> 0, responseTimes |-> <<>>]
  /\ req = [r \in Reqs |-> NoReq]
  /\ now = 0
  /\ added = {}
  /\ ret = "none"
  /\ ops = 0
  /\ client = "null"
  /\ connected = FALSE
  /\ redis \in CacheContents
  /\ WarmedUp

TierSpec == TierInit /\ [][Next]_vars

(* ---------------------------------------------------------------------- *)
(* Start-up: startServer, initializeServices, initializeBloomFilter        *)
(* ---------------------------------------------------------------------- *)
BobDoc == [username |-> BOB, createdAt |-> 0]
KimDoc == [username |-> KIM, createdAt |-> 0]
EveDoc == [username |-> EVE, createdAt |-> 0]

\* the collections the service may find at start-up: empty, shorter than a
\* batch, one batch, and more than one batch
WarmCollections ==
  { <<>>, <<BobDoc>>, <<EveDoc, BobDoc>>, <<BobDoc, KimDoc, EveDoc>>,
    <<EveDoc, KimDoc, BobDoc>> }

\* the process has started; nothing is connected or constructed yet
WarmInit ==
  /\ usernamesCollection \in WarmCollections
  /\ bloomFilter = Null
  /\ metrics = [bloomFilterHits |-> 0, databaseQueries |-> 0,
                totalRequests |-> 0, responseTimes |-> <<>>]
  /\ req = [r \in Reqs |-> NoReq]
  /\ now = 0
  /\ added = {}
  /\ ret = "none"
  /\ ops = 0
  /\ CacheUnused
  /\ phase = "starting"
  /\ cursor = 0
  /\ batch = <<>>
  /\ count = 0
  /\ warmError = FALSE

WarmFrame ==
  UNCHANGED <<usernamesCollection, metrics, req, now, added, ret, ops,
              cacheVars>>

\* initializeServices() up to `await initializeBloomFilter()`: connect and
\* createIndex, then the filter is constructed; a failure there ends the
\* process (process.exit(1))
ConnectServices(fails) ==
  /\ phase = "starting"
  /\ IF fails
     THEN /\ phase' = "exited"
          /\ UNCHANGED bloomFilter
     ELSE /\ phase' = "warming"
          /\ bloomFilter' = NewBloomFilter(bloomFilterSize, bloomFilterFPR)
  /\ UNCHANGED <<cursor, batch, count, warmError>>
  /\ WarmFrame

\* one call of the cursor.forEach callback
CursorNext ==
  /\ phase = "warming"
  /\ cursor < Len(usernamesCollection)
  /\ LET doc == usernamesCollection[cursor + 1]
         pushed == Append(batch, doc.username)
     IN  /\ cursor' = cursor + 1
         /\ count' = count + 1
         /\ IF Len(pushed) >= batchSize
            THEN /\ bloomFilter' = addBatch(bloomFilter, pushed)
                 /\ batch' = <<>>
            ELSE /\ bloomFilter' = bloomFilter
                 /\ batch' = pushed
  /\ UNCHANGED <<phase, warmError>>
  /\ WarmFrame

\* a slip for FinalBatch: the usernames left in batch are not added
FinalBatchDropped(f, usernames) == f

\* if (batch.length > 0) bloomFilter.addBatch(batch)
FinalBatch(f, usernames) ==
  IF Len(usernames) > 0 THEN addBatch(f, usernames) ELSE f

\* cursor.forEach resolved: the last batch is added, initializeBloomFilter
\* and initializeServices return, and startServer calls app.listen
CursorEnd ==
  /\ phase = "warming"
  /\ cursor = Len(usernamesCollection)
  /\ bloomFilter' = FinalBatch(bloomFilter, batch)
  /\ phase' = "listening"
  /\ UNCHANGED <<cursor, batch, count, warmError>>
  /\ WarmFrame

\* find or cursor.forEach rejected: the catch of initializeBloomFilter logs
\* the error and returns, so initializeServices returns and startServer
\* calls app.listen
CursorFails ==
  /\ phase = "warming"
  /\ warmError' = TRUE
  /\ phase' = "listening"
  /\ UNCHANGED <<bloomFilter, cursor, batch, count>>
  /\ WarmFrame

\* once listening, the service answers checks
WarmNext ==
  \/ \E fails \in BOOLEAN : ConnectServices(fails)
  \/ CursorNext
  \/ CursorEnd
  \/ CursorFails
  \/ /\ phase = "listening"
     /\ \E name \in RawNames, force_db \in BOOLEAN : CheckStart(1, name, force_db)
  \/ /\ phase = "listening"
     /\ \E fails \in BOOLEAN : StoreFindOne(1, fails)
  \/ /\ phase = "listening"
     /\ CheckResume(1)

WarmSpec == WarmInit /\ [][WarmNext]_vars

(* ---------------------------------------------------------------------- *)
(* Filters constructed with any rate                                       *)
(* ---------------------------------------------------------------------- *)
\* the falsePositiveRate arguments: 1/4, 1/2, and the rates 1 and 2, which
\* config.bloomFilterFPR = parseFloat(BLOOM_FILTER_FPR) || 0.001 lets through
ConstructRates == { <<1, 4>>, <<1, 2>>, <<1, 1>>, <<2, 1>> }

\* the state after `new BloomFilter(bloomFilterSize, p)` has returned
ConstructInit ==
  /\ \E p \in ConstructRates :
        /\ bloomFilter = NewBloomFilter(bloomFilterSize, p)
        /\ ret = [op |-> "new", falsePositiveRate |-> p]
  /\ usernamesCollection = <<>>
  /\ metrics = [bloomFilterHits |-> 0, databaseQueries |-> 0,
                totalRequests |-> 0, responseTimes |-> <<>>]
  /\ req = [r \in Reqs |-> NoReq]
  /\ now = 0
  /\ added = {}
  /\ ops = 0
  /\ CacheUnused
  /\ WarmedUp

ConstructSpec == ConstructInit /\ [][FilterNext]_vars

(* ---------------------------------------------------------------------- *)
(* Filters saved and restored                                              *)
(* ---------------------------------------------------------------------- *)
\* bloomFilter = BloomFilter.deserialize(data), data being what the last
\* call, serialize(), returned
CallDeserialize ==
  /\ ops < MaxOps
  /\ ret.op = "serialize"
  /\ bloomFilter' = deserialize(ret.value)
  /\ ret' = [op |-> "deserialize", original |-> bloomFilter]
  /\ ops' = ops + 1
  /\ UNCHANGED added
  /\ FilterFrame

PersistNext ==
  \/ FilterNext
  \/ CallDeserialize

PersistSpec == ConstructInit /\ [][PersistNext]_vars

(* ---------------------------------------------------------------------- *)
(* GET /metrics and GET /health beside the username handlers               *)
(* ---------------------------------------------------------------------- *)
\* arr.reduce((a, b) => a + b, 0)
RECURSIVE Sum(_)
Sum(arr) == IF arr = <<>> THEN 0 ELSE Head(arr) + Sum(Tail(arr))

\* a slip for getPercentile: the array is indexed as recorded, not sorted
getPercentileUnsorted(arr, percentile) ==
  IF Len(arr) = 0 THEN 0
  ELSE LET index == CeilDiv(Len(arr) * percentile[1], percentile[2]) - 1
       IN  arr[(IF index > 0 THEN index ELSE 0) + 1]

\* getPercentile(arr, percentile): a sorted copy is indexed; percentile is
\* the pair <<numerator, denominator>>
getPercentile(arr, percentile) ==
  IF Len(arr) = 0 THEN 0
  ELSE LET sorted == SortSeq(arr, LAMBDA a, b : a < b)
           index == CeilDiv(Len(sorted) * percentile[1], percentile[2]) - 1
       IN  sorted[(IF index > 0 THEN index ELSE 0) + 1]

\* total > 0 ? (part / total * 100).toFixed(2) + '%' : '0%', as the pair
\* <<hundredths of a percent, digits after the point>>
Rate(part, total) ==
  IF total > 0 THEN <<ToFixed(part * 100, total, 100), 2>> ELSE <<0, 0>>

\* a slip for MetricsAfterSnapshot: the samples are dropped once reported
MetricsResetOnRead(m) == [m EXCEPT !.responseTimes = <<>>]

\* GET /metrics assigns nothing to metrics
MetricsAfterSnapshot(m) == m

\* GET /metrics: the whole handler
MetricsRequest(r) ==
  /\ NextSlot(r)
  /\ LET stats == getStats(bloomFilter)
         avgResponseTime ==
           IF Len(metrics.responseTimes) > 0
           THEN ToFixed(Sum(metrics.responseTimes),
                        Len(metrics.responseTimes), 100)
           ELSE 0
         rec == [NoReq EXCEPT !.kind = "metrics", !.startTime = now]
     IN  req' = Respond(r, rec,
                  [status |-> 200,
                   hits |-> metrics.bloomFilterHits,
                   hit_rate |-> Rate(metrics.bloomFilterHits,
                                     metrics.totalRequests),
                   stats |-> stats,
                   queries |-> metrics.databaseQueries,
                   fallback_rate |-> Rate(metrics.databaseQueries,
                                          metrics.totalRequests),
                   total_requests |-> metrics.totalRequests,
                   avg_response_time_ms |-> avgResponseTime,
                   p95_response_time_ms |->
                      getPercentile(metrics.responseTimes, <<95, 100>>),
                   p99_response_time_ms |->
                      getPercentile(metrics.responseTimes, <<99, 100>>),
                   response_times |-> metrics.responseTimes])
  /\ metrics' = MetricsAfterSnapshot(metrics)
  /\ now' = now + 1
  /\ UNCHANGED <<bloomFilter, usernamesCollection, added, ret, ops,
               cacheVars, warmVars>>

\* GET /health up to `await db.admin().ping()`
HealthStart(r) ==
  /\ NextSlot(r)
  /\ req' = [req EXCEPT ![r] =
               [NoReq EXCEPT !.kind = "health", !.pc = "ping",
                             !.startTime = now]]
  /\ now' = now + 1
  /\ UNCHANGED <<bloomFilter, usernamesCollection, metrics, added, ret, ops,
               cacheVars, warmVars>>

\* the store answers the ping, or the ping fails
StorePing(r, fails) ==
  /\ req[r].pc = "ping"
  /\ req' = [req EXCEPT ![r].pc = "pingReturned",
                        ![r].threw = IF fails THEN "MongoNetworkError"
                                     ELSE "none"]
  /\ now' = now + 1
  /\ UNCHANGED <<bloomFilter, usernamesCollection, metrics, added, ret, ops,
               cacheVars, warmVars>>

\* GET /health after the ping
HealthResume(r) ==
  /\ req[r].kind = "health"
  /\ req[r].pc = "pingReturned"
  /\ req' = Respond(r, req[r],
               IF req[r].threw # "none"
               THEN [status |-> 503, error |-> req[r].threw]
               ELSE [status |-> 200, timestamp |-> now])
  /\ now' = now + 1
  /\ UNCHANGED <<bloomFilter, usernamesCollection, metrics, added, ret, ops,
               cacheVars, warmVars>>

ReportNext ==
  \/ Next
  \/ \E r \in Reqs : MetricsRequest(r)
  \/ \E r \in Reqs : HealthStart(r)
  \/ \E r \in Reqs, fails \in BOOLEAN : StorePing(r, fails)
  \/ \E r \in Reqs : HealthResume(r)

ReportSpec == Init /\ [][ReportNext]_vars

(* ---------------------------------------------------------------------- *)
(* Properties                                                              *)
(* ---------------------------------------------------------------------- *)
\* C1 (FilterSpec): no false negatives.  Every item on which add (alone or
\* inside addBatch) has completed is reported by mightContain from then on,
\* whatever add, addBatch, mightContain, getStats and serialize calls follow:
\* the filter answers true for it in every later state, and a mightContain
\* call on it returns true.
NoFalseNegatives ==
  /\ \A x \in added : mightContain(bloomFilter, x)
  /\ (ret.op = "mightContain" /\ ret.item \in added) => ret.value = TRUE

\* an added key is queried after two further calls, and another key is still absent
NoFalseNegativesWitness ==
  /\ ops >= 3
  /\ ret.op = "mightContain" /\ ret.item \in added /\ ret.value = TRUE
  /\ \E y \in FilterItems : ~mightContain(bloomFilter, y)

\* requests by kind and progress
Checks == {r \in Reqs : req[r].kind = "check"}
Registers == {r \in Reqs : req[r].kind = "register"}
Done(r) == req[r].pc = "done"
WellFormed(r) == isValidUsername(req[r].username)
Answered(r) == Done(r) /\ req[r].res.status = 200
Created(r) == Done(r) /\ req[r].res.status = 201

\* q was in flight at some moment between r's arrival and r's response
Overlaps(q, r) ==
  /\ req[q].pc # "idle"
  /\ req[q].startTime < req[r].endT
  /\ (Done(q) => req[q].endT > req[r].startTime)

\* C2 (Spec): tiered short-circuit.  A check without force_db for a
\* well-formed key on which the filter answers mightContain = false is
\* answered in the same step with available = true and source bloom_filter,
\* and issues no store call; the databaseQueries counter counts exactly the
\* other well-formed checks, so such a request leaves it untouched.
TieredShortCircuit ==
  /\ \A r \in Checks :
        (WellFormed(r) /\ ~req[r].forceDb /\ ~req[r].maybe) =>
           /\ Answered(r)
           /\ req[r].res.available = TRUE
           /\ req[r].res.source = "bloom_filter"
           /\ req[r].storeCalls = 0
           /\ req[r].seen = {} /\ req[r].existingUser = Null
           /\ req[r].endT = req[r].startTime
  /\ metrics.databaseQueries =
       Cardinality({r \in Checks :
                      WellFormed(r) /\ (req[r].forceDb \/ req[r].maybe)})
  /\ metrics.bloomFilterHits =
       Cardinality({r \in Checks :
                      WellFormed(r) /\ ~req[r].forceDb /\ ~req[r].maybe})

\* a check was short-circuited after an earlier check had gone to the store
TieredShortCircuitWitness ==
  /\ metrics.databaseQueries = 1
  /\ \E r \in Checks :
        /\ Answered(r) /\ req[r].res.source = "bloom_filter"
        /\ req[r].storeCalls = 0
        /\ usernamesCollection # <<>>

\* C3 (Spec): a filter "definitely absent" can be trusted outright: every key
\* in the store is reported mightContain = true by the filter, in every
\* reachable state, registrations in flight included.
StoredKeysAreInFilter ==
  \A k \in KeysOf(usernamesCollection) : mightContain(bloomFilter, k)

\* C4 (Spec): once a register request for a key has responded 201, every
\* check that arrives later for any spelling of that key, with or without
\* force_db, is never answered available = true: its answer is
\* available = false (a check whose store query fails responds 500 and
\* carries no availability).
CreatedThenTaken ==
  \A r \in Registers : \A c \in Checks :
     (Created(r) /\ Done(c) /\ req[c].startTime > req[r].endT
        /\ req[c].username = req[r].username) =>
        /\ req[c].res.status \in {200, 500}
        /\ req[c].res.status = 200 => req[c].res.available = FALSE
        /\ req[c].res.status = 500 => req[c].threw # "none"

\* a key registered under one spelling is checked later, without force_db,
\* under another spelling and found taken
CreatedThenTakenWitness ==
  \E r \in Registers : \E c \in Checks :
     /\ Created(r) /\ Answered(c) /\ req[c].startTime > req[r].endT
     /\ req[c].username = req[r].username
     /\ req[c].name # req[r].name
     /\ ~req[c].forceDb
     /\ req[c].res.available = FALSE

\* C5 (Spec): registration race.  Two concurrent register requests for the
\* same key, absent from the store when both arrive and with no store
\* failure, respond one 201 and one 409, never 500.
RegistrationRace ==
  \A r \in Registers : \A q \in Registers :
     (/\ r # q /\ Done(r) /\ Done(q)
      /\ req[r].username = req[q].username /\ WellFormed(r)
      /\ Overlaps(q, r)
      /\ req[r].threw # "MongoNetworkError"
      /\ req[q].threw # "MongoNetworkError"
      /\ req[r].username \notin req[r].atStart \cup req[q].atStart) =>
        /\ {req[r].res.status, req[q].res.status} = {201, 409}
        /\ mightContain(bloomFilter, req[r].username)

\* C6 (Spec): uniqueness under any interleaving.  For every key at most one
\* register request ever responds 201, none does for a key the store held
\* from the start, and the store never holds two documents with one key.
UniqueCreated ==
  /\ \A r \in Registers : \A q \in Registers :
        (Created(r) /\ Created(q) /\ req[r].username = req[q].username) => r = q
  /\ \A i \in DOMAIN usernamesCollection : \A j \in DOMAIN usernamesCollection :
        usernamesCollection[i].username = usernamesCollection[j].username
           => i = j
  /\ \A r \in Registers :
        Created(r) =>
           \E i \in DOMAIN usernamesCollection :
              /\ usernamesCollection[i].username = req[r].username
              /\ usernamesCollection[i].createdAt > req[r].startTime

\* two registrations of one key raced past the existence read; the unique
\* index let one insert through and rejected the other
UniqueCreatedWitness ==
  \E r \in Registers : \E q \in Registers :
     /\ Created(r) /\ Done(q) /\ r # q
     /\ req[q].username = req[r].username
     /\ req[q].threw = "E11000 duplicate key error"

\* C7 (Spec): bypass correctness.  A check with force_db = true for a
\* well-formed key always issues the store query, whatever the filter would
\* answer, and its response never has source bloom_filter.
BypassCorrectness ==
  \A c \in Checks :
     (req[c].forceDb /\ WellFormed(c)) =>
        /\ req[c].storeCalls = 1
        /\ Done(c) => /\ req[c].res.status \in {200, 500}
                      /\ req[c].res.status = 200 =>
                            req[c].res.source = "forced_database"

\* a forced check was answered by the store for a key the filter reports absent
BypassCorrectnessWitness ==
  \E c \in Checks :
     /\ req[c].forceDb /\ Answered(c)
     /\ req[c].res.source = "forced_database"
     /\ ~req[c].maybe
     /\ req[c].res.available = TRUE

\* C8 (Spec): store-answered checks are authoritative and tagged.  A check
\* answered after its store query reports available = (no document with the
\* normalized key was in the store when the query was answered), with source
\* database without force_db and forced_database with it; every 200 response
\* of a check carries a boolean and a source from the documented set.
StoreAnswersAuthoritative ==
  \A c \in Checks :
     Answered(c) =>
        /\ req[c].res.available \in BOOLEAN
        /\ req[c].res.source \in {"bloom_filter", "cache", "database",
                                  "forced_database"}
        /\ req[c].res.username = trim(toLowerCase(req[c].name))
        /\ req[c].storeCalls = 1 =>
              /\ req[c].res.available = (req[c].res.username \notin req[c].seen)
              /\ req[c].res.source =
                   IF req[c].forceDb THEN "forced_database" ELSE "database"

\* a check under another spelling of a stored key went to the store and was
\* answered "taken"
StoreAnswersAuthoritativeWitness ==
  \E c \in Checks :
     /\ Answered(c) /\ req[c].storeCalls = 1
     /\ req[c].res.source = "database"
     /\ req[c].res.available = FALSE
     /\ req[c].username \in req[c].seen
     /\ req[c].name # req[c].username

\* C9 (Spec): a filter "maybe" is never grounds for rejecting a
\* registration.  A register request for a well-formed key that the store
\* did not hold, with no store failure and no concurrent registration of
\* the key, responds 201, also when the filter reported the key as possibly
\* present.
MaybeNeverRejects ==
  \A r \in Registers :
     (/\ Done(r) /\ WellFormed(r)
      /\ req[r].threw # "MongoNetworkError"
      /\ req[r].username \notin req[r].atStart
      /\ \A q \in Registers \ {r} :
            req[q].username = req[r].username => ~Overlaps(q, r)) =>
        req[r].res.status = 201

\* a key the filter already reported (a false positive: the store did not
\* hold it) was registered
MaybeNeverRejectsWitness ==
  \E r \in Registers :
     /\ Created(r)
     /\ req[r].maybe
     /\ req[r].username \notin req[r].atStart
     /\ req[r].atStart # {}

\* C10 (Spec): on Created the key is in the filter before the response.
\* From the state in which a register request has responded 201 onwards,
\* the store holds a document with the key, the filter reports the key, and
\* the filter has counted the add.
CreatedIsInFilter ==
  /\ \A r \in Registers :
        Created(r) =>
           /\ req[r].username \in KeysOf(usernamesCollection)
           /\ mightContain(bloomFilter, req[r].username)
  /\ bloomFilter.elementCount >=
       Cardinality({r \in Registers : Created(r)})

\* a 201 was sent, and afterwards another registration failed at the store
CreatedIsInFilterWitness ==
  \E r \in Registers : \E q \in Registers :
     /\ Created(r) /\ Done(q)
     /\ req[q].res.status = 500
     /\ req[q].endT > req[r].endT
     /\ req[q].threw = "MongoNetworkError"

\* the documents the collection held when the service started
InitialDocs == SelectSeq(usernamesCollection, LAMBDA d : d.createdAt = 0)

\* the filter after add for the key of every request of rs
RECURSIVE AddKeysOf(_, _)
AddKeysOf(f, rs) ==
  IF rs = {} THEN f
  ELSE LET r == CHOOSE q \in rs : TRUE
       IN  AddKeysOf(add(f, req[r].username), rs \ {r})

\* C11 (Spec): a failed store read or insert leaves no partial state.  A
\* register request whose findOne or insertOne failed (a network error or
\* any other store exception) responds 500, and it changes neither the
\* filter's bits nor its inserted count: at every moment the filter is
\* exactly the warmed-up filter plus one add per request that responded 201
\* (the service never touches the cache).
FailedInsertNoPartialState ==
  /\ \A r \in Registers :
        (Done(r) /\ req[r].threw # "none") =>
           /\ req[r].res.status = 500
           /\ req[r].res.message = req[r].threw
  /\ bloomFilter =
       AddKeysOf(initializeBloomFilter(
                   NewBloomFilter(bloomFilterSize, bloomFilterFPR), InitialDocs),
                 {r \in Registers : Created(r)})
  /\ redis = NoEntries

\* one registration failed at insertOne for a key the filter does not
\* report, while another failed at findOne
FailedInsertNoPartialStateWitness ==
  \E r \in Registers : \E q \in Registers :
     /\ Done(r) /\ req[r].threw = "MongoNetworkError" /\ req[r].storeCalls = 2
     /\ ~mightContain(bloomFilter, req[r].username)
     /\ Done(q) /\ req[q].threw = "MongoNetworkError" /\ req[q].storeCalls = 1

\* the store told request r that a document with its key already exists:
\* findOne returned one, or the unique index rejected the insert
AlreadyExists(r) ==
  \/ req[r].existingUser # Null
  \/ req[r].threw = "E11000 duplicate key error"

\* C12 (Spec): on AlreadyExists the register request responds 409 Conflict
\* and leaves the filter (bits and inserted count) and the store unchanged:
\* the store holds the one document it held, and the filter is the
\* warmed-up filter plus one add per 201 response.
ConflictOnAlreadyExists ==
  \A r \in Registers :
     (Done(r) /\ AlreadyExists(r)) =>
        /\ req[r].res.status = 409
        /\ Cardinality({i \in DOMAIN usernamesCollection :
                          usernamesCollection[i].username = req[r].username}) = 1
        /\ bloomFilter =
             AddKeysOf(initializeBloomFilter(
                         NewBloomFilter(bloomFilterSize, bloomFilterFPR),
                         InitialDocs),
                       {q \in Registers : Created(q)})

\* the identifier grammar: letters, digits, underscore, length 3 to 20
GrammarChars ==
  { "a","b","c","d","e","f","g","h","i","j","k","l","m",
    "n","o","p","q","r","s","t","u","v","w","x","y","z",
    "A","B","C","D","E","F","G","H","I","J","K","L","M",
    "N","O","P","Q","R","S","T","U","V","W","X","Y","Z",
    "0","1","2","3","4","5","6","7","8","9","_" }
MatchesGrammar(key) ==
  /\ Len(key) \in 3 .. 20
  /\ \A i \in DOMAIN key : key[i] \in GrammarChars

\* C13 (Spec): a check or register request whose normalized key does not
\* match the grammar is answered 400 in the step that receives it, before
\* any filter or store lookup, and that step changes neither the store, the
\* filter, the cache nor any metrics counter or latency sample.
InvalidRejectedNoEffects ==
  [][\A r \in Reqs :
       (/\ req[r].pc = "idle"
        /\ req'[r].pc # "idle"
        /\ ~MatchesGrammar(req'[r].username))
       => /\ req'[r].pc = "done"
          /\ req'[r].res.status = 400
          /\ req'[r].storeCalls = 0
          /\ UNCHANGED <<bloomFilter, usernamesCollection, metrics,
                         cacheVars>>]_vars

\* a check of a too-short name and a register of a too-long name were both
\* rejected, and a register of a name with inner white space as well
InvalidRejectedNoEffectsWitness ==
  /\ \E r \in Checks :
        Done(r) /\ req[r].username = <<"n","o">> /\ req[r].res.status = 400
  /\ \E r \in Registers :
        /\ Done(r) /\ req[r].res.status = 400
        /\ req[r].username \in {LONG, <<"e"," ","e">>}
  /\ metrics.totalRequests = 0

\* C14 (Spec): if the store query of a check request fails, the request
\* responds 500 Internal server error carrying the store's message, and its
\* response has no availability field (so never available = true).
StoreErrorSurfaced ==
  \A r \in Checks :
     (Done(r) /\ req[r].threw # "none") =>
        /\ req[r].res.status = 500
        /\ req[r].res.error = "Internal server error"
        /\ req[r].res.message = req[r].threw
        /\ "available" \notin DOMAIN req[r].res

\* the findOne of a check for a key that is not stored failed, and the
\* check was answered
StoreErrorSurfacedWitness ==
  \E r \in Checks :
     /\ Done(r)
     /\ req[r].threw = "MongoNetworkError"
     /\ req[r].storeCalls = 1
     /\ req[r].username \notin KeysOf(usernamesCollection)

\* C15 (TierSpec): when the filter answers "maybe" (or is bypassed) and the
\* cache holds a record for the key, the check is answered with the cached
\* value and source "cache", without a store query.
CachedAnswerServed ==
  \A r \in Checks :
     (/\ Done(r)
      /\ WellFormed(r)
      /\ req[r].maybe \/ req[r].forceDb
      /\ CacheKey(req[r].username) \in DOMAIN redis)
     => /\ req[r].storeCalls = 0
        /\ req[r].res.status = 200
        /\ req[r].res.source = "cache"
        /\ req[r].res.available
             = (redis[CacheKey(req[r].username)] = "available")

\* C16 (TierSpec): after a check was answered from the store, the cache
\* holds a result for its key.
WriteThroughOnCheck ==
  \A r \in Checks :
     (Answered(r) /\ req[r].storeCalls = 1)
     => CacheKey(req[r].username) \in DOMAIN redis

\* C17 (TierSpec): when a register request has responded 201, the cache
\* entry of its key says taken.
WriteThroughOnRegister ==
  \A r \in Registers :
     Created(r)
     => /\ CacheKey(req[r].username) \in DOMAIN redis
        /\ redis[CacheKey(req[r].username)] = "taken"

\* C18 (CacheSpec): in every cache state the cache read returns a value
\* ("no value" included) and raises no error to its caller.
CacheReadNeverRaises ==
  ret.op = "getUsernameAvailability" => ret.result.threw = "none"

\* C19 (WarmSpec): the service accepts requests only after the filter has
\* been populated from the store's full key set: when it listens, warm-up
\* has not stopped on an error and every stored key is in the filter.
WarmUpBeforeTraffic ==
  phase = "listening" =>
     /\ warmError = FALSE
     /\ cursor = Len(usernamesCollection)
     /\ \A k \in KeysOf(usernamesCollection) : mightContain(bloomFilter, k)

\* C20 (FilterSpec): no operation on an existing filter (add, addBatch,
\* mightContain, getStats, serialize) changes a bit from 1 to 0 or lowers
\* the inserted count, and none changes the filter's size.
FilterMonotonic ==
  [][/\ bloomFilter'.bitArraySize = bloomFilter.bitArraySize
     /\ DOMAIN bloomFilter'.bitArray = DOMAIN bloomFilter.bitArray
     /\ \A pos \in 0 .. (bloomFilter.bitArraySize - 1) :
           TestBit(bloomFilter.bitArray[pos \div 8], pos % 8)
           => TestBit(bloomFilter'.bitArray[pos \div 8], pos % 8)
     /\ bloomFilter'.elementCount >= bloomFilter.elementCount]_vars

\* items were added again over bits that were already set (bob twice, then
\* kim, whose bits are bob's), and a read-only operation followed
FilterMonotonicWitness ==
  /\ ops = MaxOps
  /\ ret.op \in {"mightContain", "getStats", "serialize"}
  /\ bloomFilter.elementCount = 3
  /\ added = {BOB, KIM}

\* C21 (FilterSpec): add is idempotent on the bit array.  Whatever the
\* filter state, when add(x) is called directly after add(x) (x spelled the
\* same way or in another case), the second call leaves the bit array exactly
\* as the first left it.
AddIdempotent ==
  [][(/\ ret.op = "add"
      /\ ret'.op = "add"
      /\ ops' = ops + 1
      /\ toLowerCase(ret'.item) = toLowerCase(ret.item))
     => bloomFilter'.bitArray = bloomFilter.bitArray]_vars

\* eve was added twice in a row to a filter that already held bob
AddIdempotentWitness ==
  /\ ops = 3
  /\ ret.op = "add"
  /\ ret.item = EVE
  /\ added = {BOB, EVE}
  /\ bloomFilter.elementCount = 3
  /\ bloomFilter.bitArray = add(add(NewBloomFilter(bloomFilterSize,
                                                   bloomFilterFPR),
                                    BOB), EVE).bitArray

\* C22 (ConstructSpec): a filter exists only for expectedElements > 0 and
\* 0 < falsePositiveRate < 1, and no filter has m <= 0 or k <= 0.
ConstructionValidated ==
  /\ bloomFilter.expectedElements > 0
  /\ bloomFilter.falsePositiveRate[1] > 0
  /\ bloomFilter.falsePositiveRate[1] < bloomFilter.falsePositiveRate[2]
  /\ bloomFilter.bitArraySize > 0
  /\ bloomFilter.hashFunctionCount > 0

\* C23 (PersistSpec): the filter rebuilt from serialize(f) has the same m,
\* k, n, p, inserted count and bit array as f, and so gives the same
\* mightContain answer as f for every key; the store is not read.
SerializeRoundTrip ==
  ret.op = "deserialize" =>
     /\ bloomFilter.bitArraySize = ret.original.bitArraySize
     /\ bloomFilter.hashFunctionCount = ret.original.hashFunctionCount
     /\ bloomFilter.expectedElements = ret.original.expectedElements
     /\ bloomFilter.falsePositiveRate = ret.original.falsePositiveRate
     /\ bloomFilter.elementCount = ret.original.elementCount
     /\ bloomFilter.bitArray = ret.original.bitArray
     /\ \A item \in FilterItems :
           mightContain(bloomFilter, item) = mightContain(ret.original, item)

\* a filter of 9 bits holding bob and eve was saved and restored
SerializeRoundTripWitness ==
  /\ ret.op = "deserialize"
  /\ bloomFilter.bitArraySize = 9
  /\ bloomFilter.elementCount = 2
  /\ added = {BOB, EVE}
  /\ mightContain(bloomFilter, EVE)
  /\ bloomFilter.bitArray[1] = 1

\* add called on each key of the sequence in order, last key last
RECURSIVE AddEach(_, _)
AddEach(f, keys) ==
  IF Len(keys) = 0 THEN f
  ELSE add(AddEach(f, SubSeq(keys, 1, Len(keys) - 1)), keys[Len(keys)])

\* C24 (FilterSpec): addBatch(keys) leaves the filter in the state that add
\* called on each key in order leaves it in, bit array and inserted count,
\* for the empty sequence, single keys and sequences with duplicates.
BatchIsRepeatedAdd ==
  [][(ret'.op = "addBatch" /\ ops' = ops + 1)
     => bloomFilter' = AddEach(bloomFilter, ret'.usernames)]_vars

\* a batch holding eve twice was added to a filter that held bob
BatchIsRepeatedAddWitness ==
  /\ ops = 2
  /\ ret.op = "addBatch"
  /\ ret.usernames = <<EVE, EVE>>
  /\ added = {BOB, EVE}
  /\ bloomFilter.elementCount = 3

\* C25 (ReportSpec): across check, register, metrics and health requests no
\* counter ever decreases and no recorded latency sample is removed or
\* altered (the samples so far stay a prefix of the samples), and the step
\* that serves a metrics or health request changes no counter, no sample,
\* and neither the filter nor the store.
MetricsNeverReset ==
  [][/\ metrics'.totalRequests >= metrics.totalRequests
     /\ metrics'.bloomFilterHits >= metrics.bloomFilterHits
     /\ metrics'.databaseQueries >= metrics.databaseQueries
     /\ Len(metrics'.responseTimes) >= Len(metrics.responseTimes)
     /\ SubSeq(metrics'.responseTimes, 1, Len(metrics.responseTimes))
          = metrics.responseTimes
     /\ \A r \in Reqs :
           (req'[r].kind \in {"metrics", "health"} /\ req'[r] # req[r])
           => UNCHANGED <<metrics, bloomFilter, usernamesCollection>>]_vars

\* a metrics request was answered after a check that recorded a sample, and
\* the sample is still there
MetricsNeverResetWitness ==
  \E r \in Reqs :
     /\ req[r].kind = "metrics"
     /\ Done(r)
     /\ req[r].res.total_requests = 1
     /\ Len(req[r].res.response_times) = 1
     /\ metrics.responseTimes = req[r].res.response_times

\* every bit position of key is set in the byte array of f
BitsSet(f, key) ==
  LET hashes == getHashValues(f, key) IN
  \A j \in DOMAIN hashes :
     (f.bitArray[hashes[j] \div 8] \div Pow2(hashes[j] % 8)) % 2 = 1

\* C26 (Spec): no lost filter updates.  Once two register requests for
\* distinct keys have both responded 201, in whatever order their steps
\* were interleaved, every bit of both keys is set, and so is every bit of
\* the keys loaded at start-up: no add has overwritten another add's bit.
NoLostFilterUpdates ==
  \A q \in Registers : \A r \in Registers :
     (/\ Created(q)
      /\ Created(r)
      /\ req[q].username # req[r].username)
     => /\ BitsSet(bloomFilter, req[q].username)
        /\ BitsSet(bloomFilter, req[r].username)
        /\ \A i \in DOMAIN InitialDocs :
              BitsSet(bloomFilter, InitialDocs[i].username)

\* registrations of eve and bob, whose bits lie in the same byte, were in
\* flight together and both responded 201, bob's add running last
NoLostFilterUpdatesWitness ==
  \E q \in Registers : \E r \in Registers :
     /\ Created(q) /\ req[q].username = EVE
     /\ Created(r) /\ req[r].username = BOB
     /\ Overlaps(q, r)
     /\ req[r].endT > req[q].endT
     /\ bloomFilter.elementCount = 2

\* the least integer m with m * (ln 2)^2 >= -(n * ln p)
SizedBits(n, p) ==
  CHOOSE m \in -16 .. 16 :
     /\ m * MathLog(<<2, 1>>) * MathLog(<<2, 1>>)
          >= (-(n * MathLog(p))) * 10000
     /\ (m - 1) * MathLog(<<2, 1>>) * MathLog(<<2, 1>>)
          < (-(n * MathLog(p))) * 10000

\* the least integer k with k >= (m / n) * ln 2
SizedHashes(n, m) ==
  CHOOSE k \in -16 .. 16 :
     /\ k * n * 10000 >= m * MathLog(<<2, 1>>)
     /\ (k - 1) * n * 10000 < m * MathLog(<<2, 1>>)

ConflictImpliesMember ==
  [][\A r \in Reqs :
        (/\ req[r].pc # "done"
         /\ req'[r].pc = "done"
         /\ req'[r].kind = "register"
         /\ req'[r].res.status = 409)
        => mightContain(bloomFilter', req'[r].username)]_vars

\* C29 (WarmSpec): when initializeBloomFilter has finished without a store
\* error over a store of N usernames, every stored username is reported by
\* the filter, the filter's inserted count is N (it was 0), and the loop
\* has counted N documents.
WarmUpLoadsAll ==
  (phase = "listening" /\ ~warmError) =>
     /\ \A i \in DOMAIN usernamesCollection :
           mightContain(bloomFilter, usernamesCollection[i].username)
     /\ bloomFilter.elementCount = Len(usernamesCollection)
     /\ count = Len(usernamesCollection)

\* three usernames were loaded as one full batch and a final partial one,
\* and a check for a stored key was then answered from the store
WarmUpLoadsAllWitness ==
  /\ phase = "listening"
  /\ ~warmError
  /\ Len(usernamesCollection) = batchSize + 1
  /\ Len(batch) = 1
  /\ bloomFilter.elementCount = batchSize + 1
  /\ \E r \in Checks : Answered(r) /\ ~req[r].res.available

FreshFilterEmpty ==
  ret.op = "new" =>
     /\ \A b \in DOMAIN bloomFilter.bitArray : bloomFilter.bitArray[b] = 0
     /\ bloomFilter.elementCount = 0
     /\ \A x \in FilterItems : ~mightContain(bloomFilter, x)

\* (h1 + i * h2) mod m, by adding h2 mod m to the running position i times
RECURSIVE Position(_, _, _, _)
Position(h1, h2, i, m) ==
  IF i = 0 THEN WordMod(h1, m)
  ELSE (Position(h1, h2, i - 1, m) + WordMod(h2, m)) % m

\* the positions whose bit is 1 in the byte array of f
SetPositions(f) ==
  {pos \in 0 .. (8 * CeilDiv(f.bitArraySize, 8) - 1) :
     (f.bitArray[pos \div 8] \div Pow2(pos % 8)) % 2 = 1}

CaseInsensitive ==
  \A x, y \in FilterItems :
     toLowerCase(x) = toLowerCase(y) =>
        /\ add(bloomFilter, x).bitArray = add(bloomFilter, y).bitArray
        /\ mightContain(add(bloomFilter, x), y)
        /\ x \in added => mightContain(bloomFilter, y)
        /\ (x \in added /\ ret.op = "mightContain" /\ ret.item = y) => ret.value

CaseInsensitiveWitness ==
  /\ added = {<<"B","O","B">>}
  /\ ret.op = "mightContain" /\ ret.item = BOB /\ ret.value
  /\ ~mightContain(bloomFilter, EVE)

\* C34 (Spec): metrics accounting.  At every state, also while checks are
\* suspended on the store, total requests = filter short-circuits + store
\* fallbacks; the number of latency samples is the number of checks that
\* responded with 200 and never exceeds total requests; the counters are
\* determined by the well-formed check requests alone, so register requests
\* and invalid-format requests change none of them.
MetricsAccounting ==
  /\ metrics.totalRequests = metrics.bloomFilterHits + metrics.databaseQueries
  /\ Len(metrics.responseTimes) = Cardinality({c \in Checks : Answered(c)})
  /\ Len(metrics.responseTimes) <= metrics.totalRequests
  /\ metrics.totalRequests =
       Cardinality({c \in Checks : WellFormed(c)})
  /\ metrics.bloomFilterHits =
       Cardinality({c \in Checks : Answered(c) /\ req[c].storeCalls = 0})
  /\ metrics.databaseQueries =
       Cardinality({c \in Checks : req[c].storeCalls > 0})

MetricsAccountingWitness ==
  \E c \in Checks : \E d \in Checks :
     /\ req[c].pc = "findOne"
     /\ Answered(d) /\ req[d].res.source = "bloom_filter"
     /\ metrics.totalRequests = 2
     /\ metrics.bloomFilterHits = 1
     /\ metrics.databaseQueries = 1
     /\ Len(metrics.responseTimes) = 1

\* C35 (Spec): checks are read-only on the data tiers.  No step of a check
\* request (its handler before and after the store lookup, the lookup
\* itself; short-circuit, store lookup, bypass, store error and invalid
\* format alike) changes the filter's bits or count or the keys of the
\* store; a step that changes any of them belongs to a register request
\* whose insert the store accepts.
ChecksReadOnly ==
  [][ /\ (\E c \in Reqs : req'[c].kind = "check" /\ req'[c] # req[c]) =>
           /\ bloomFilter' = bloomFilter
           /\ usernamesCollection' = usernamesCollection
      /\ (bloomFilter' # bloomFilter
            \/ usernamesCollection' # usernamesCollection) =>
           \E r \in Reqs :
              /\ req[r].kind = "register"
              /\ req[r].pc \in {"insertOne", "insertOneReturned"}
              /\ req'[r].pc # req[r].pc
              /\ req'[r].threw = "none"
              /\ req[r].username \in KeysOf(usernamesCollection') ]_vars

ChecksReadOnlyWitness ==
  \E c \in Checks : \E d \in Checks :
     /\ Done(c) /\ req[c].res.status = 500
     /\ Answered(d) /\ req[d].res.source = "forced_database"
     /\ ~req[d].res.available
     /\ req[d].username = req[c].username
     /\ Overlaps(c, d)

\* a key as the store and the filter are meant to see it: no upper-case
\* letter, no white space at either end
IsNormalized(k) ==
  /\ \A i \in DOMAIN k : k[i] \notin Range(UpperChars)
  /\ k # <<>> => (k[1] \notin WhiteSpace /\ k[Len(k)] \notin WhiteSpace)

\* s without the white space before its first character
RECURSIVE StripHead(_)
StripHead(s) ==
  IF s # <<>> /\ Head(s) \in WhiteSpace THEN StripHead(Tail(s)) ELSE s

\* s without the white space after its last character
RECURSIVE StripTail(_)
StripTail(s) ==
  IF s # <<>> /\ s[Len(s)] \in WhiteSpace
  THEN StripTail(SubSeq(s, 1, Len(s) - 1)) ELSE s

\* a and b differ only in letter case or surrounding white space
SameIdentifier(a, b) ==
  LET ca == StripTail(StripHead(a))
      cb == StripTail(StripHead(b))
  IN  /\ Len(ca) = Len(cb)
      /\ \A i \in DOMAIN ca :
            \/ ca[i] = cb[i]
            \/ \E n \in DOMAIN UpperChars :
                  {ca[i], cb[i]} = {UpperChars[n], LowerChars[n]}

\* C36 (Spec): check and register agree on key normalization.  Every key
\* the service hands to the filter or the store is lower-case and trimmed
\* (and so is every key in the store); two requests of either kind whose
\* names differ only in letter case or surrounding white space work on the
\* same key and pass or fail validation alike; once a register request has
\* created a name, a later check of any spelling of it that answers says
\* unavailable and a later register of any spelling of it is refused.
NormalizationAgrees ==
  /\ \A k \in KeysOf(usernamesCollection) : IsNormalized(k)
  /\ \A r \in Reqs :
        req[r].pc # "idle" =>
           /\ IsNormalized(req[r].username)
           /\ req[r].storeCalls > 0 => WellFormed(r)
           /\ req[r].doc # Null => req[r].doc[1].username = req[r].username
  /\ \A r, q \in Reqs :
        (req[r].pc # "idle" /\ req[q].pc # "idle"
           /\ SameIdentifier(req[r].name, req[q].name)) =>
           /\ req[r].username = req[q].username
           /\ (Done(r) /\ req[r].res.status = 400 /\ Done(q)) =>
                 req[q].res.status = 400
  /\ \A r \in Registers : \A q \in Reqs :
        (Created(r) /\ Done(q) /\ req[q].startTime > req[r].endT
           /\ SameIdentifier(req[r].name, req[q].name)) =>
           IF req[q].kind = "check"
           THEN req[q].res.status = 200 => ~req[q].res.available
           ELSE req[q].res.status \in {409, 500}

NormalizationAgreesWitness ==
  \E r \in Registers : \E q \in Registers :
     /\ Created(r) /\ req[r].name = <<" ","K","I","M">>
     /\ Done(q) /\ req[q].name = KIM
     /\ req[q].startTime > req[r].endT
     /\ req[q].res.status = 409

\* the bit pattern of item in a filter of f's geometry, as the set of the
\* positions that are 1 in it
Pattern(f, item) == Range(getHashValues(f, toLowerCase(item)))

\* C37 (FilterSpec): insertion order does not matter.  For the current
\* filter and any items x, y, add(x) then add(y) gives the same bit array
\* and inserted count as add(y) then add(x); that bit array is the bitwise
\* OR of the filter's bits with the bit patterns of x and y (a position is 1
\* in it exactly if it is 1 in one of the three), and the bits of the
\* current filter are the OR of the patterns of the items added so far.
AddCommutes ==
  /\ \A x, y \in FilterItems :
        LET xy == add(add(bloomFilter, x), y)
            yx == add(add(bloomFilter, y), x)
        IN  /\ xy.bitArray = yx.bitArray
            /\ xy.elementCount = yx.elementCount
            /\ xy.elementCount = bloomFilter.elementCount + 2
            /\ SetPositions(xy) = SetPositions(bloomFilter)
                                    \cup Pattern(bloomFilter, x)
                                    \cup Pattern(bloomFilter, y)
  /\ SetPositions(bloomFilter) = UNION {Pattern(bloomFilter, x) : x \in added}

AddCommutesWitness ==
  /\ ret.op = "add" /\ ret.item = EVE
  /\ added = {<<"K","i","m">>, EVE}
  /\ bloomFilter.elementCount = 2
  /\ Pattern(bloomFilter, KIM) # Pattern(bloomFilter, EVE)
  /\ \E p \in Pattern(bloomFilter, KIM) : \E q \in Pattern(bloomFilter, EVE) :
        p \div 8 = q \div 8

(* ---------------------------------------------------------------------- *)
(* UsernameDatabase (mongodb-setup.js): the store wrapper, one caller      *)
(* ---------------------------------------------------------------------- *)
\* the usernames the wrapper's caller passes
WrapperNames == { BOB, <<"B","o","b"," ">>, KIM, <<" ","K","I","M">> }

\* isUsernameTaken(username): findOne({ username: username.toLowerCase() })
isUsernameTaken(coll, username) == findOne(coll, toLowerCase(username)) # Null

\* the document registerUsername builds
NewDocument(username, createdAt) ==
  [username |-> trim(toLowerCase(username)), originalUsername |-> username,
   createdAt |-> createdAt]

\* connect() has completed on an empty collection: the unique index exists
WrapperInit ==
  /\ usernamesCollection = <<>>
  /\ bloomFilter = NewBloomFilter(bloomFilterSize, bloomFilterFPR)
  /\ metrics = [bloomFilterHits |-> 0, databaseQueries |-> 0,
                totalRequests |-> 0, responseTimes |-> <<>>]
  /\ req = [r \in Reqs |-> NoReq]
  /\ now = 0
  /\ added = {}
  /\ ret = [op |-> "connect"]
  /\ ops = 0
  /\ CacheUnused
  /\ WarmedUp

WrapperFrame == UNCHANGED <<bloomFilter, metrics, req, cacheVars, warmVars>>

\* registerUsername(username): insertOne of the new document; E11000 is
\* rethrown as 'Username already exists', any other error as it is
CallRegisterUsername(username, fails) ==
  /\ ops < MaxOps
  /\ LET document == NewDocument(username, now) IN
     IF fails
     THEN /\ ret' = [op |-> "registerUsername", username |-> username,
                     threw |-> "MongoNetworkError",
                     before |-> usernamesCollection]
          /\ UNCHANGED <<usernamesCollection, added>>
     ELSE IF DuplicateKey(usernamesCollection, document)
     THEN /\ ret' = [op |-> "registerUsername", username |-> username,
                     threw |-> "Username already exists",
                     before |-> usernamesCollection]
          /\ UNCHANGED <<usernamesCollection, added>>
     ELSE /\ usernamesCollection' = insertOne(usernamesCollection, document)
          /\ added' = added \cup {username}
          /\ ret' = [op |-> "registerUsername", username |-> username,
                     threw |-> "none", before |-> usernamesCollection]
  /\ ops' = ops + 1
  /\ now' = now + 1
  /\ WrapperFrame

\* isUsernameTaken(username): !!result, or the store's error rethrown
CallIsUsernameTaken(username, fails) ==
  /\ ops < MaxOps
  /\ ret' = IF fails
            THEN [op |-> "isUsernameTaken", username |-> username,
                  threw |-> "MongoNetworkError", value |-> FALSE]
            ELSE [op |-> "isUsernameTaken", username |-> username,
                  threw |-> "none",
                  value |-> isUsernameTaken(usernamesCollection, username)]
  /\ ops' = ops + 1
  /\ now' = now + 1
  /\ UNCHANGED <<usernamesCollection, added>>
  /\ WrapperFrame

WrapperNext ==
  \/ \E username \in WrapperNames, fails \in BOOLEAN :
        CallRegisterUsername(username, fails)
  \/ \E username \in WrapperNames, fails \in BOOLEAN :
        CallIsUsernameTaken(username, fails)

WrapperSpec == WrapperInit /\ [][WrapperNext]_vars

\* C38 (WrapperSpec): store wrapper round trip.  Once registerUsername(u)
\* has succeeded, isUsernameTaken(u) with the same argument returns true
\* (when the store answers); and registerUsername of a name that
\* normalizes to the key of a name registered before fails with
\* 'Username already exists' (or the store's own failure) and leaves the
\* store unchanged.
WrapperRoundTrip ==
  /\ (ret.op = "isUsernameTaken" /\ ret.threw = "none"
        /\ ret.username \in added) => ret.value
  /\ (ret.op = "registerUsername"
        /\ \E u \in added : /\ SameIdentifier(u, ret.username)
                            /\ \E i \in DOMAIN ret.before :
                                  ret.before[i].originalUsername = u) =>
        /\ ret.threw \in {"Username already exists", "MongoNetworkError"}
        /\ usernamesCollection = ret.before

(* ---------------------------------------------------------------------- *)
(* getPercentile on its own: any sample list, any percentile               *)
(* ---------------------------------------------------------------------- *)
\* response times in milliseconds
Latencies == {0, 1, 5}
\* the sample lists: every list of at most MaxSamples latencies
SampleLists == UNION {[1 .. n -> Latencies] : n \in 0 .. MaxSamples}
\* percentiles in (0, 1] as <<numerator, denominator>>; /metrics asks for
\* 0.95 and 0.99
Percentiles == { <<95, 100>>, <<99, 100>>, <<1, 2>>, <<1, 4>>, <<1, 1>> }

PercentileInit ==
  /\ \E arr \in SampleLists :
        /\ metrics = [bloomFilterHits |-> 0, databaseQueries |-> 0,
                      totalRequests |-> 0, responseTimes |-> arr]
        /\ ret = [op |-> "samples", arr |-> arr]
  /\ usernamesCollection = <<>>
  /\ bloomFilter = NewBloomFilter(bloomFilterSize, bloomFilterFPR)
  /\ req = [r \in Reqs |-> NoReq]
  /\ now = 0
  /\ added = {}
  /\ ops = 0
  /\ CacheUnused
  /\ WarmedUp

\* getPercentile(metrics.responseTimes, percentile): the sort works on the
\* copy [...arr], the recorded list is left as it is
CallGetPercentile(percentile) ==
  /\ ops < MaxOps
  /\ ret' = [op |-> "getPercentile", arr |-> ret.arr,
             percentile |-> percentile,
             value |-> getPercentile(metrics.responseTimes, percentile)]
  /\ ops' = ops + 1
  /\ UNCHANGED <<bloomFilter, usernamesCollection, metrics, req, now, added,
                 cacheVars, warmVars>>

PercentileNext == \E percentile \in Percentiles : CallGetPercentile(percentile)

PercentileSpec == PercentileInit /\ [][PercentileNext]_vars

\* C39 (PercentileSpec): percentile selection.  For a non-empty sample list
\* and a percentile q in (0, 1], getPercentile returns the element of rank
\* ceil(len * q) (counted from 1) of the samples in ascending order: a
\* member of the list, with at least that many samples <= it and fewer than
\* that many samples < it; for an empty list it returns 0; the recorded list
\* is the same list, in the same order, after every call.
PercentileSelection ==
  /\ metrics.responseTimes = ret.arr
  /\ ret.op = "getPercentile" =>
        LET arr == ret.arr
            rank == CeilDiv(Len(arr) * ret.percentile[1], ret.percentile[2])
        IN  IF arr = <<>> THEN ret.value = 0
            ELSE /\ rank \in 1 .. Len(arr)
                 /\ \E i \in DOMAIN arr : arr[i] = ret.value
                 /\ Cardinality({i \in DOMAIN arr : arr[i] <= ret.value}) >= rank
                 /\ Cardinality({i \in DOMAIN arr : arr[i] < ret.value}) < rank

PercentileSelectionWitness ==
  /\ ret.op = "getPercentile"
  /\ metrics.responseTimes = <<5, 1, 0, 1>>
  /\ ret.percentile = <<1, 2>>
  /\ ret.value = 1

====
